---- MODULE Spec2Model ----
(***************************************************************************)
(* The data-access layer of the gift-list service (services/dynamodb):     *)
(* the list and gift repositories over one DynamoDB table.                 *)
(*                                                                         *)
(* The table is a function from primary keys <<PK, SK>> to items; an item  *)
(* is a record whose DOMAIN is the set of attributes it carries, so that   *)
(* an attribute that is absent from an item is absent from the record.     *)
(* Every repository function is a sequence of store calls; each store     *)
(* call is one atomic step, and the calls of concurrent invocations        *)
(* interleave freely.  Queries (base table and indexes) read the table as  *)
(* it is at the step that issues them.                                     *)
(*                                                                         *)
(* What the model takes from the store: a query returns every item that    *)
(* matches (the code reads no LastEvaluatedKey), a BatchWriteCommand that  *)
(* does not throw has processed all its requests (the code reads no        *)
(* UnprocessedItems), and the requests of one batch take effect together.  *)
(* A store call that throws has written nothing.                           *)
(***************************************************************************)
EXTENDS Integers, FiniteSets, Sequences, TLC

VARIABLES store, clock, nextList, nextGift, pc, call, loc, out, writes

vars == <<store, clock, nextList, nextGift, pc, call, loc, out, writes>>

(***************************************************************************)
(* Bounds of the model.  An id is issued by every createList and every     *)
(* createGift that passes its checks; each specification bounds the number *)
(* of ids issued in a behaviour.                                           *)
(***************************************************************************)
\* ids issued under Spec (two calls in flight)
MaxIds == 2
\* ids issued under SpecClaim (claims racing)
ClaimIds == 2
\* ids issued under SpecSeq (one call at a time)
SeqIds == 3
\* ids issued under SpecDelete (lists deleted)
DeleteIds == 4
\* ids issued under SpecView (lists and gifts read)
ViewIds == 3
UnclaimIds == 2
TimeIds == 2
MaxClock == 2
\* items per BatchWriteCommand: the code's 25, scaled to the lists of the model
BatchSize == 2

\* invocations (one Lambda invocation each); they are interchangeable
Procs == 1..5
\* callers; the lists of the model are those of Lister
Owners == {"u1", "u2"}
Lister == "u1"
Names == {"Alice", "Bob"}

\* an id that uuidv4() never returned
UnknownId == 0

(***************************************************************************)
(* Keys.                                                                   *)
(***************************************************************************)
ListPK(listId) == <<"LIST", listId>>
MetadataSK == <<"METADATA", 0>>
GiftSK(giftId) == <<"GIFT", giftId>>
ListKey(listId) == <<ListPK(listId), MetadataSK>>
GiftKey(listId, giftId) == <<ListPK(listId), GiftSK(giftId)>>

Null == [isNull |-> TRUE]

(***************************************************************************)
(* The store's primitives (DynamoDB DocumentClient commands).              *)
(***************************************************************************)
Has(item, attr) == attr \in DOMAIN item

\* PutCommand: the item replaces whatever is stored under its key
PutItem(st, item) == (<<item.PK, item.SK>> :> item) @@ st

\* DeleteCommand / one DeleteRequest: idempotent per key
DeleteKeys(st, keys) == [k \in DOMAIN st \ keys |-> st[k]]

\* UpdateCommand without a condition: SET sets, REMOVE removes; an item that
\* does not exist is created with its key attributes (DynamoDB's upsert)
UpdateItem(st, key, sets, removes) ==
  LET old == IF key \in DOMAIN st THEN st[key] ELSE [PK |-> key[1], SK |-> key[2]]
      kept == [a \in DOMAIN old \ removes |-> old[a]]
  IN (key :> (sets @@ kept)) @@ st

\* GetCommand
GetItem(st, key) == IF key \in DOMAIN st THEN {st[key]} ELSE {}

\* QueryCommand on the base table: PK = pk AND begins_with(SK, prefix)
QueryPrefix(st, pk, prefix) ==
  {st[k] : k \in {k2 \in DOMAIN st : k2[1] = pk /\ k2[2][1] = prefix}}

\* QueryCommand on an index: only items carrying the index key are in it
QueryIndex(st, attr, value) ==
  {st[k] : k \in {k2 \in DOMAIN st : Has(st[k2], attr) /\ st[k2][attr] = value}}

(***************************************************************************)
(* Items to domain models.                                                 *)
(***************************************************************************)
ListFields == {"id", "ownerId", "title", "hideClaimedGifts", "createdAt",
               "updatedAt", "shareUrl"}
GiftFields == {"id", "listId", "title", "description", "url", "status",
               "claimedBy", "claimerMessage", "claimedAt", "createdAt",
               "updatedAt", "sortOrder"}
ClaimFields == {"claimedBy", "claimerMessage", "claimedAt"}

\* a field whose attribute is missing is undefined: it is no field of the result
listItemToList(item) == [f \in ListFields \cap DOMAIN item |-> item[f]]
giftItemToGift(item) == [f \in GiftFields \cap DOMAIN item |-> item[f]]

ShareUrl(shareCode) == <<"/gift-list/", shareCode>>

(***************************************************************************)
(* Reads.                                                                  *)
(***************************************************************************)
getListById(st, listId) ==
  LET items == GetItem(st, ListKey(listId))
  IN IF items # {} THEN listItemToList(CHOOSE i \in items : TRUE) ELSE Null

\* the items result.Items[0] can be for a query of GSI2: the index returns the
\* items of a share code in GSI2SK order, those of equal GSI2SK in any order
FirstByShareCode(st, shareCode) ==
  LET items == QueryIndex(st, "GSI2PK", <<"SHARE", shareCode>>)
  IN {i \in items : \A j \in items : i.GSI2SK[2] <= j.GSI2SK[2]}

\* the gifts of a list, as a set (the query returns them in SK order)
getGiftsByList(st, listId) ==
  {giftItemToGift(i) : i \in QueryPrefix(st, ListPK(listId), "GIFT")}

getGiftById(st, giftId) ==
  LET items == QueryIndex(st, "GSI1PK", <<"GIFT", giftId>>)
  IN IF items # {} THEN giftItemToGift(CHOOSE i \in items : TRUE) ELSE Null

(***************************************************************************)
(* Invocations.  pc[p] is the position of p's current call, call[p] its    *)
(* arguments, loc[p] its local variables, out[p] what it returned or      *)
(* threw, writes[p] the number of write commands it has sent.             *)
(***************************************************************************)
NoCall == [op |-> "none"]
NoLoc == [none |-> TRUE]
NoOut == [code |-> "NONE"]

Ok(value) == [code |-> "OK", value |-> value]
Err(code) == [code |-> code]

Init ==
  /\ store = <<>>
  /\ clock = 1
  /\ nextList = 1
  /\ nextGift = 1
  /\ pc = [p \in Procs |-> "idle"]
  /\ call = [p \in Procs |-> NoCall]
  /\ loc = [p \in Procs |-> NoLoc]
  /\ out = [p \in Procs |-> NoOut]
  /\ writes = [p \in Procs |-> 0]

\* the call of p ends: it throws or returns, and its locals are gone
Finish(p, result) ==
  /\ pc' = [pc EXCEPT ![p] = "done"]
  /\ out' = [out EXCEPT ![p] = result]
  /\ loc' = [loc EXCEPT ![p] = NoLoc]

Goto(p, label) ==
  /\ pc' = [pc EXCEPT ![p] = label]
  /\ UNCHANGED out

Begin(p, c) ==
  /\ pc[p] = "idle"
  /\ call' = [call EXCEPT ![p] = c]

Wrote(p) == writes' = [writes EXCEPT ![p] = @ + 1]

\* ids a caller can name: those a create call has stored, or one never issued
PendingGifts == {loc[q].item.id : q \in {q2 \in Procs : pc[q2] = "createGift_put"}}
KnownLists == (1..(nextList - 1)) \cup {UnknownId}
KnownGifts == ((1..(nextGift - 1)) \ PendingGifts) \cup {UnknownId}

(***************************************************************************)
(* createList (dynamodb.ts, createList): id, share code and timestamp are  *)
(* taken and the item is put, with no store call before the put.           *)
(***************************************************************************)
\* a createList that stores every list as one that shows its claimed gifts
createList_never_hiding(p, ownerId, request, shareCode) ==
  /\ Begin(p, [op |-> "createList", ownerId |-> ownerId, request |-> request])
  /\ LET id == nextList
         now == clock
         item == [PK |-> ListPK(id), SK |-> MetadataSK,
                  GSI1PK |-> <<"OWNER", ownerId>>, GSI1SK |-> <<"CREATED", now>>,
                  GSI2PK |-> <<"SHARE", shareCode>>, GSI2SK |-> <<"CREATED", now>>,
                  id |-> id, ownerId |-> ownerId, title |-> request.title,
                  hideClaimedGifts |-> FALSE,
                  shareUrl |-> ShareUrl(shareCode),
                  createdAt |-> now, updatedAt |-> now]
     IN /\ store' = PutItem(store, item)
        /\ Finish(p, Ok(listItemToList(item)))
  /\ nextList' = nextList + 1
  /\ Wrote(p)
  /\ UNCHANGED <<clock, nextGift>>

createList(p, ownerId, request, shareCode) ==
  /\ Begin(p, [op |-> "createList", ownerId |-> ownerId, request |-> request])
  /\ LET id == nextList
         now == clock
         item == [PK |-> ListPK(id), SK |-> MetadataSK,
                  GSI1PK |-> <<"OWNER", ownerId>>, GSI1SK |-> <<"CREATED", now>>,
                  GSI2PK |-> <<"SHARE", shareCode>>, GSI2SK |-> <<"CREATED", now>>,
                  id |-> id, ownerId |-> ownerId, title |-> request.title,
                  hideClaimedGifts |-> request.hideClaimedGifts,
                  shareUrl |-> ShareUrl(shareCode),
                  createdAt |-> now, updatedAt |-> now]
     IN /\ store' = PutItem(store, item)
        /\ Finish(p, Ok(listItemToList(item)))
  /\ nextList' = nextList + 1
  /\ Wrote(p)
  /\ UNCHANGED <<clock, nextGift>>

(***************************************************************************)
(* getListByShareCode: one query of GSI2.                                  *)
(***************************************************************************)
\* a lookup that returns the first list of GSI2 whatever its share code
getListByAnyCode(p, shareCode) ==
  /\ Begin(p, [op |-> "getListByShareCode", shareCode |-> shareCode])
  /\ LET items == {store[k] : k \in {k2 \in DOMAIN store : Has(store[k2], "GSI2PK")}}
     IN IF items = {}
        THEN Finish(p, Ok(Null))
        ELSE \E i \in items : Finish(p, Ok(listItemToList(i)))
  /\ UNCHANGED <<store, clock, nextList, nextGift, writes>>

getListByShareCode(p, shareCode) ==
  /\ Begin(p, [op |-> "getListByShareCode", shareCode |-> shareCode])
  /\ LET items == FirstByShareCode(store, shareCode)
     IN IF items = {}
        THEN Finish(p, Ok(Null))
        ELSE \E i \in items : Finish(p, Ok(listItemToList(i)))
  /\ UNCHANGED <<store, clock, nextList, nextGift, writes>>

(***************************************************************************)
(* updateList                                                              *)
(***************************************************************************)
\* the owner check every list operation makes on the list it has just read
ListCheck(existing, ownerId) ==
  IF existing = Null THEN "NOT_FOUND"
  ELSE IF ~Has(existing, "ownerId") \/ existing.ownerId # ownerId THEN "FORBIDDEN"
  ELSE "PASS"

updateList_read(p, listId, ownerId, request) ==
  /\ Begin(p, [op |-> "updateList", listId |-> listId, ownerId |-> ownerId,
               request |-> request])
  /\ LET check == ListCheck(getListById(store, listId), ownerId)
     IN IF check # "PASS"
        THEN Finish(p, Err(check))
        ELSE Goto(p, "updateList_write") /\ loc' = [loc EXCEPT ![p] = [now |-> clock]]
  /\ UNCHANGED <<store, clock, nextList, nextGift, writes>>

\* an update that also issues a new share code for the list
updateList_write_new_code(p) ==
  /\ pc[p] = "updateList_write"
  /\ store' = UpdateItem(store, ListKey(call[p].listId),
                         ("updatedAt" :> loc[p].now) @@ call[p].request @@
                         [GSI2PK |-> <<"SHARE", "c2">>, shareUrl |-> ShareUrl("c2")],
                         {})
  /\ Wrote(p)
  /\ Goto(p, "updateList_return")
  /\ UNCHANGED <<clock, nextList, nextGift, call, loc>>

\* an update that writes both request fields, a field the request leaves out
\* with the value of a new list
updateList_write_all_fields(p) ==
  /\ pc[p] = "updateList_write"
  /\ store' = UpdateItem(store, ListKey(call[p].listId),
                         ("updatedAt" :> loc[p].now) @@ call[p].request @@
                         [title |-> "t1", hideClaimedGifts |-> FALSE],
                         {})
  /\ Wrote(p)
  /\ Goto(p, "updateList_return")
  /\ UNCHANGED <<clock, nextList, nextGift, call, loc>>

\* SET of the fields the request provides, and of updatedAt
updateList_write(p) ==
  /\ pc[p] = "updateList_write"
  /\ store' = UpdateItem(store, ListKey(call[p].listId),
                         ("updatedAt" :> loc[p].now) @@ call[p].request, {})
  /\ Wrote(p)
  /\ Goto(p, "updateList_return")
  /\ UNCHANGED <<clock, nextList, nextGift, call, loc>>

updateList_return(p) ==
  /\ pc[p] = "updateList_return"
  /\ Finish(p, Ok(getListById(store, call[p].listId)))
  /\ UNCHANGED <<store, clock, nextList, nextGift, call, writes>>

(***************************************************************************)
(* deleteList                                                              *)
(***************************************************************************)
\* what a template literal renders for a field that is undefined
UndefinedId == -1

RECURSIVE SortedIds(_)
SortedIds(S) ==
  IF S = {} THEN <<>>
  ELSE LET m == CHOOSE x \in S : \A y \in S : x <= y
       IN <<m>> \o SortedIds(S \ {m})

\* getGiftsByList as the array the query returns: the items in SK order
getGiftsByListSeq(st, listId) ==
  LET ids == SortedIds({k[2][2] : k \in {k2 \in DOMAIN st :
                          k2[1] = ListPK(listId) /\ k2[2][1] = "GIFT"}})
  IN [n \in 1..Len(ids) |-> giftItemToGift(st[GiftKey(listId, ids[n])])]

\* the key deleteList builds for a gift it was returned
DeleteKeyOf(listId, gift) ==
  GiftKey(listId, IF Has(gift, "id") THEN gift.id ELSE UndefinedId)

Min(a, b) == IF a <= b THEN a ELSE b

deleteList_read(p, listId, ownerId) ==
  /\ Begin(p, [op |-> "deleteList", listId |-> listId, ownerId |-> ownerId])
  /\ LET check == ListCheck(getListById(store, listId), ownerId)
     IN IF check # "PASS"
        THEN Finish(p, Err(check))
        ELSE Goto(p, "deleteList_query") /\ UNCHANGED loc
  /\ UNCHANGED <<store, clock, nextList, nextGift, writes>>

\* the list's key first, then the key of every gift the query returned
deleteList_query(p) ==
  /\ pc[p] = "deleteList_query"
  /\ LET gifts == getGiftsByListSeq(store, call[p].listId)
         deleteRequests ==
           <<ListKey(call[p].listId)>> \o
           [n \in 1..Len(gifts) |-> DeleteKeyOf(call[p].listId, gifts[n])]
     IN loc' = [loc EXCEPT ![p] = [deleteRequests |-> deleteRequests, i |-> 0]]
  /\ Goto(p, "deleteList_batch")
  /\ UNCHANGED <<store, clock, nextList, nextGift, call, writes>>

\* a deleteList without chunks: one BatchWriteCommand of all the requests
deleteList_batch_all(p) ==
  /\ pc[p] = "deleteList_batch"
  /\ LET reqs == loc[p].deleteRequests
         batch == {reqs[n] : n \in 1..Len(reqs)}
     IN store' = DeleteKeys(store, batch)
  /\ Finish(p, Ok(Null))
  /\ Wrote(p)
  /\ UNCHANGED <<clock, nextList, nextGift, call>>

\* a deleteList without the loop: one BatchWriteCommand of the first 25 requests
deleteList_batch_once(p) ==
  /\ pc[p] = "deleteList_batch"
  /\ LET reqs == loc[p].deleteRequests
         batch == {reqs[n] : n \in 1..Min(BatchSize, Len(reqs))}
     IN store' = DeleteKeys(store, batch)
  /\ Finish(p, Ok(Null))
  /\ Wrote(p)
  /\ UNCHANGED <<clock, nextList, nextGift, call>>

\* one turn of the loop: the BatchWriteCommand of deleteRequests.slice(i, i + 25)
deleteList_batch(p) ==
  /\ pc[p] = "deleteList_batch"
  /\ LET reqs == loc[p].deleteRequests
         i == loc[p].i
         batch == {reqs[n] : n \in (i + 1)..Min(i + BatchSize, Len(reqs))}
     IN /\ store' = DeleteKeys(store, batch)
        /\ IF i + BatchSize < Len(reqs)
           THEN Goto(p, "deleteList_batch") /\ loc' = [loc EXCEPT ![p].i = i + BatchSize]
           ELSE Finish(p, Ok(Null))
  /\ Wrote(p)
  /\ UNCHANGED <<clock, nextList, nextGift, call>>

(***************************************************************************)
(* createGift                                                              *)
(***************************************************************************)
\* the list is read and checked, then id and timestamp are taken
createGift_read(p, listId, ownerId, request) ==
  /\ Begin(p, [op |-> "createGift", listId |-> listId, ownerId |-> ownerId,
               request |-> request])
  /\ LET check == ListCheck(getListById(store, listId), ownerId)
         id == nextGift
         now == clock
         item == request @@
                 [PK |-> ListPK(listId), SK |-> GiftSK(id),
                  GSI1PK |-> <<"GIFT", id>>, GSI1SK |-> <<"LIST", listId>>,
                  id |-> id, listId |-> listId, status |-> "available",
                  createdAt |-> now, updatedAt |-> now]
     IN IF check # "PASS"
        THEN Finish(p, Err(check)) /\ UNCHANGED nextGift
        ELSE /\ Goto(p, "createGift_put")
             /\ loc' = [loc EXCEPT ![p] = [item |-> item]]
             /\ nextGift' = nextGift + 1
  /\ UNCHANGED <<store, clock, nextList, writes>>

\* a put that also keeps a gift counter on the list record
createGift_put_counting(p) ==
  /\ pc[p] = "createGift_put"
  /\ store' = UpdateItem(PutItem(store, loc[p].item), ListKey(call[p].listId),
                         [giftCount |-> 1], {})
  /\ Wrote(p)
  /\ Finish(p, Ok(giftItemToGift(loc[p].item)))
  /\ UNCHANGED <<clock, nextList, nextGift, call>>

createGift_put(p) ==
  /\ pc[p] = "createGift_put"
  /\ store' = PutItem(store, loc[p].item)
  /\ Wrote(p)
  /\ Finish(p, Ok(giftItemToGift(loc[p].item)))
  /\ UNCHANGED <<clock, nextList, nextGift, call>>

(***************************************************************************)
(* The gift operations of the owner: updateGift, deleteGift, unclaimGift.  *)
(* Each resolves the gift through the by-id index, then reads its list.    *)
(***************************************************************************)
\* first store call of op: getGiftById
GiftRead(p, c, next) ==
  /\ Begin(p, c)
  /\ LET gift == getGiftById(store, c.giftId)
     IN IF gift = Null
        THEN Finish(p, Err("NOT_FOUND"))
        ELSE Goto(p, next) /\ loc' = [loc EXCEPT ![p] = [listId |-> gift.listId]]
  /\ UNCHANGED <<store, clock, nextList, nextGift, writes>>

\* a check of the list's existence only: if (!list) throw FORBIDDEN
GiftListExists(list, ownerId) == IF list = Null THEN "FORBIDDEN" ELSE "PASS"

\* if (!list || list.ownerId !== ownerId) throw FORBIDDEN
GiftOwnerCheck(list, ownerId) ==
  IF list = Null \/ ~Has(list, "ownerId") \/ list.ownerId # ownerId
  THEN "FORBIDDEN" ELSE "PASS"

\* second store call: getListById(gift.listId), the check, and the timestamp
GiftListRead(p, here, next) ==
  /\ pc[p] = here
  /\ LET check == GiftOwnerCheck(getListById(store, loc[p].listId), call[p].ownerId)
     IN IF check # "PASS"
        THEN Finish(p, Err(check))
        ELSE Goto(p, next) /\ loc' = [loc EXCEPT ![p] = [listId |-> loc[p].listId,
                                                         now |-> clock]]
  /\ UNCHANGED <<store, clock, nextList, nextGift, call, writes>>

\* return (await getGiftById(giftId))!
GiftReturn(p, here) ==
  /\ pc[p] = here
  /\ Finish(p, Ok(getGiftById(store, call[p].giftId)))
  /\ UNCHANGED <<store, clock, nextList, nextGift, call, writes>>

updateGift_gift(p, giftId, ownerId, request) ==
  GiftRead(p, [op |-> "updateGift", giftId |-> giftId, ownerId |-> ownerId,
               request |-> request], "updateGift_list")

updateGift_list(p) == GiftListRead(p, "updateGift_list", "updateGift_write")

\* an update that sets the fields of the request and no timestamp
updateGift_write_no_stamp(p) ==
  /\ pc[p] = "updateGift_write"
  /\ store' = UpdateItem(store, GiftKey(loc[p].listId, call[p].giftId),
                         call[p].request, {})
  /\ Wrote(p)
  /\ Goto(p, "updateGift_return")
  /\ UNCHANGED <<clock, nextList, nextGift, call, loc>>

\* an update that writes the gift back as a gift nobody has claimed
updateGift_write_reset_claim(p) ==
  /\ pc[p] = "updateGift_write"
  /\ store' = UpdateItem(store, GiftKey(loc[p].listId, call[p].giftId),
                         ("updatedAt" :> loc[p].now) @@ call[p].request @@
                         [status |-> "available"],
                         ClaimFields)
  /\ Wrote(p)
  /\ Goto(p, "updateGift_return")
  /\ UNCHANGED <<clock, nextList, nextGift, call, loc>>

\* SET of the fields the request provides, and of updatedAt
updateGift_write(p) ==
  /\ pc[p] = "updateGift_write"
  /\ store' = UpdateItem(store, GiftKey(loc[p].listId, call[p].giftId),
                         ("updatedAt" :> loc[p].now) @@ call[p].request, {})
  /\ Wrote(p)
  /\ Goto(p, "updateGift_return")
  /\ UNCHANGED <<clock, nextList, nextGift, call, loc>>

updateGift_return(p) == GiftReturn(p, "updateGift_return")

deleteGift_gift(p, giftId, ownerId) ==
  GiftRead(p, [op |-> "deleteGift", giftId |-> giftId, ownerId |-> ownerId],
           "deleteGift_list")

\* a deleteGift that sends its DeleteCommand before it checks the owner
deleteGift_list_after_delete(p) ==
  /\ pc[p] = "deleteGift_list"
  /\ store' = DeleteKeys(store, {GiftKey(loc[p].listId, call[p].giftId)})
  /\ Wrote(p)
  /\ LET check == GiftOwnerCheck(getListById(store, loc[p].listId), call[p].ownerId)
     IN Finish(p, IF check # "PASS" THEN Err(check) ELSE Ok(Null))
  /\ UNCHANGED <<clock, nextList, nextGift, call>>

deleteGift_list(p) == GiftListRead(p, "deleteGift_list", "deleteGift_delete")

deleteGift_delete(p) ==
  /\ pc[p] = "deleteGift_delete"
  /\ store' = DeleteKeys(store, {GiftKey(loc[p].listId, call[p].giftId)})
  /\ Wrote(p)
  /\ Finish(p, Ok(Null))
  /\ UNCHANGED <<clock, nextList, nextGift, call>>

unclaimGift_gift(p, giftId, ownerId) ==
  GiftRead(p, [op |-> "unclaimGift", giftId |-> giftId, ownerId |-> ownerId],
           "unclaimGift_list")

unclaimGift_list(p) == GiftListRead(p, "unclaimGift_list", "unclaimGift_write")

\* an unclaim whose update carries the condition status = claimed
unclaimGift_write_if_claimed(p) ==
  /\ pc[p] = "unclaimGift_write"
  /\ LET k == GiftKey(loc[p].listId, call[p].giftId)
     IN IF Has(store, k) /\ Has(store[k], "status") /\ store[k].status = "claimed"
        THEN /\ store' = UpdateItem(store, k,
                                    [status |-> "available", updatedAt |-> loc[p].now],
                                    ClaimFields)
             /\ Wrote(p)
             /\ Goto(p, "unclaimGift_return")
             /\ UNCHANGED loc
        ELSE /\ Finish(p, Err("NOT_CLAIMED"))
             /\ UNCHANGED <<store, writes>>
  /\ UNCHANGED <<clock, nextList, nextGift, call>>

\* an unclaim without its REMOVE clause: SET status = available, updatedAt
unclaimGift_write_set_only(p) ==
  /\ pc[p] = "unclaimGift_write"
  /\ store' = UpdateItem(store, GiftKey(loc[p].listId, call[p].giftId),
                         [status |-> "available", updatedAt |-> loc[p].now], {})
  /\ Wrote(p)
  /\ Goto(p, "unclaimGift_return")
  /\ UNCHANGED <<clock, nextList, nextGift, call, loc>>

\* SET status = available, updatedAt REMOVE claimedBy, claimerMessage, claimedAt
unclaimGift_write(p) ==
  /\ pc[p] = "unclaimGift_write"
  /\ store' = UpdateItem(store, GiftKey(loc[p].listId, call[p].giftId),
                         [status |-> "available", updatedAt |-> loc[p].now],
                         ClaimFields)
  /\ Wrote(p)
  /\ Goto(p, "unclaimGift_return")
  /\ UNCHANGED <<clock, nextList, nextGift, call, loc>>

unclaimGift_return(p) == GiftReturn(p, "unclaimGift_return")

(***************************************************************************)
(* claimGift: lookup, conditional update, re-read.                         *)
(***************************************************************************)
claimGift_read(p, giftId, request) ==
  /\ Begin(p, [op |-> "claimGift", giftId |-> giftId, request |-> request])
  /\ LET gift == getGiftById(store, giftId)
     IN IF gift = Null
        THEN Finish(p, Err("NOT_FOUND"))
        ELSE /\ Goto(p, "claimGift_update")
             /\ loc' = [loc EXCEPT ![p] = [listId |-> gift.listId, now |-> clock]]
  /\ UNCHANGED <<store, clock, nextList, nextGift, writes>>

\* ConditionExpression: attribute_not_exists(claimedBy), which an item that
\* is not stored satisfies
ClaimIfNoClaimant(st, key) == key \notin DOMAIN st \/ ~Has(st[key], "claimedBy")

\* an update with no ConditionExpression: it applies to any stored item
ClaimUnconditional(st, key) == key \in DOMAIN st

\* ConditionExpression: #status = :available
ClaimCondition(st, key) ==
  key \in DOMAIN st /\ Has(st[key], "status") /\ st[key].status = "available"

\* ExpressionAttributeValues as marshalled with removeUndefinedValues: a value
\* that is undefined (a field the request does not carry) is dropped from the map
ClaimValues(request, now) ==
  (IF Has(request, "claimedBy")
     THEN (":claimedBy" :> request.claimedBy) ELSE <<>>) @@
  (IF Has(request, "claimerMessage")
     THEN (":claimerMessage" :> request.claimerMessage) ELSE <<>>) @@
  (":claimed" :> "claimed") @@ (":claimedAt" :> now) @@
  (":updatedAt" :> now) @@ (":available" :> "available")

\* the values the UpdateExpression and the ConditionExpression name
ClaimExpressionValues ==
  {":claimed", ":claimedBy", ":claimerMessage", ":claimedAt", ":updatedAt",
   ":available"}

\* a claimGift whose catch block maps every error of the update to
\* ALREADY_CLAIMED, without looking at its name
claimGift_update_catch_all(p) ==
  /\ pc[p] = "claimGift_update"
  /\ LET key == GiftKey(loc[p].listId, call[p].giftId)
         values == ClaimValues(call[p].request, loc[p].now)
     IN IF ~(ClaimExpressionValues \subseteq DOMAIN values) \/ ~ClaimCondition(store, key)
        THEN Finish(p, Err("ALREADY_CLAIMED")) /\ UNCHANGED <<store, writes>>
        ELSE /\ store' = UpdateItem(store, key,
                           [status |-> values[":claimed"],
                            claimedBy |-> values[":claimedBy"],
                            claimerMessage |-> values[":claimerMessage"],
                            claimedAt |-> values[":claimedAt"],
                            updatedAt |-> values[":updatedAt"]], {})
             /\ Wrote(p)
             /\ Goto(p, "claimGift_return")
             /\ UNCHANGED loc
  /\ UNCHANGED <<clock, nextList, nextGift, call>>

\* the store refuses an expression that names a value the map does not define
\* (ValidationException); otherwise it checks the condition and applies the SET
\* in one atomic step
claimGift_update(p) ==
  /\ pc[p] = "claimGift_update"
  /\ LET key == GiftKey(loc[p].listId, call[p].giftId)
         values == ClaimValues(call[p].request, loc[p].now)
     IN IF ~(ClaimExpressionValues \subseteq DOMAIN values)
        THEN Finish(p, Err("ValidationException")) /\ UNCHANGED <<store, writes>>
        ELSE IF ~ClaimCondition(store, key)
        THEN Finish(p, Err("ALREADY_CLAIMED")) /\ UNCHANGED <<store, writes>>
        ELSE /\ store' = UpdateItem(store, key,
                           [status |-> values[":claimed"],
                            claimedBy |-> values[":claimedBy"],
                            claimerMessage |-> values[":claimerMessage"],
                            claimedAt |-> values[":claimedAt"],
                            updatedAt |-> values[":updatedAt"]], {})
             /\ Wrote(p)
             /\ Goto(p, "claimGift_return")
             /\ UNCHANGED loc
  /\ UNCHANGED <<clock, nextList, nextGift, call>>

claimGift_return(p) == GiftReturn(p, "claimGift_return")

(***************************************************************************)
(* The reads of the lister: getListsByOwner (GET /lists), getList          *)
(* (GET /lists/{listId}) and getGifts (GET /lists/{listId}/gifts).         *)
(***************************************************************************)
\* a query of GSI1 whose key condition names no owner
ListsOfAnyOwner(st, ownerId) ==
  LET items == {st[k] : k \in {k2 \in DOMAIN st :
                   Has(st[k2], "GSI1PK") /\ st[k2].GSI1PK[1] = "OWNER"}}
      ids == SortedIds({i.id : i \in items})
  IN [n \in 1..Len(ids) |->
        listItemToList(CHOOSE i \in items : i.id = ids[n])]

\* the items of GSI1 under OWNER#ownerId, mapped to lists, as the array the
\* query returns: in GSI1SK order, which is the order in which ids were issued
ListsOfOwner(st, ownerId) ==
  LET items == QueryIndex(st, "GSI1PK", <<"OWNER", ownerId>>)
      ids == SortedIds({i.id : i \in items})
  IN [n \in 1..Len(ids) |->
        listItemToList(CHOOSE i \in items : i.id = ids[n])]

\* { ...list, giftCount, claimedCount } for the gifts a query returned
WithCounts(list, gifts) ==
  [giftCount |-> Len(gifts),
   claimedCount |-> Cardinality({n \in DOMAIN gifts :
                      Has(gifts[n], "status") /\ gifts[n].status = "claimed"})]
  @@ list

getListsByOwner_query(p, ownerId) ==
  /\ Begin(p, [op |-> "getListsByOwner", ownerId |-> ownerId])
  /\ LET lists == ListsOfOwner(store, ownerId)
     IN IF Len(lists) = 0
        THEN Finish(p, Ok(<<>>))
        ELSE /\ Goto(p, "getListsByOwner_gifts")
             /\ loc' = [loc EXCEPT ![p] = [lists |-> lists, counted |-> {}]]
  /\ UNCHANGED <<store, clock, nextList, nextGift, writes>>

\* an enrichment that counts every gift as claimed
getListsByOwner_gifts_all_claimed(p) ==
  /\ pc[p] = "getListsByOwner_gifts"
  /\ \E n \in (1..Len(loc[p].lists)) \ loc[p].counted :
       LET gifts == getGiftsByListSeq(store, loc[p].lists[n].id)
           lists == [loc[p].lists EXCEPT ![n] =
                       [giftCount |-> Len(gifts), claimedCount |-> Len(gifts)] @@ @]
       IN IF loc[p].counted \cup {n} = 1..Len(lists)
          THEN Finish(p, Ok(lists))
          ELSE /\ Goto(p, "getListsByOwner_gifts")
               /\ loc' = [loc EXCEPT ![p] = [lists |-> lists,
                                             counted |-> loc[p].counted \cup {n}]]
  /\ UNCHANGED <<store, clock, nextList, nextGift, call, writes>>

\* Promise.all: one getGiftsByList per list, answered in any order
getListsByOwner_gifts(p) ==
  /\ pc[p] = "getListsByOwner_gifts"
  /\ \E n \in (1..Len(loc[p].lists)) \ loc[p].counted :
       LET gifts == getGiftsByListSeq(store, loc[p].lists[n].id)
           lists == [loc[p].lists EXCEPT ![n] = WithCounts(@, gifts)]
       IN IF loc[p].counted \cup {n} = 1..Len(lists)
          THEN Finish(p, Ok(lists))
          ELSE /\ Goto(p, "getListsByOwner_gifts")
               /\ loc' = [loc EXCEPT ![p] = [lists |-> lists,
                                             counted |-> loc[p].counted \cup {n}]]
  /\ UNCHANGED <<store, clock, nextList, nextGift, call, writes>>

\* getList: 404 without the list, 403 for another user than its owner
getList(p, listId, userId) ==
  /\ Begin(p, [op |-> "getList", listId |-> listId, userId |-> userId])
  /\ Finish(p, LET list == getListById(store, listId)
               IN IF list = Null THEN Err("NOT_FOUND")
                  ELSE IF ~Has(list, "ownerId") \/ list.ownerId # userId
                  THEN Err("FORBIDDEN")
                  ELSE Ok(list))
  /\ UNCHANGED <<store, clock, nextList, nextGift, writes>>

\* getGifts: the gifts of the list named in the path; the handler does not
\* read the user id of the event
getGifts(p, listId, userId) ==
  /\ Begin(p, [op |-> "getGifts", listId |-> listId, userId |-> userId])
  /\ Finish(p, Ok(getGiftsByList(store, listId)))
  /\ UNCHANGED <<store, clock, nextList, nextGift, writes>>

(***************************************************************************)
(* getPublicGifts (handlers/public): the list by its share code, then its  *)
(* gifts, filtered and reduced to their public fields.                     *)
(***************************************************************************)
PublicFields == {"id", "title", "description", "url", "status"}

\* a field that is undefined is no field of the JSON body
PublicGift(g) == [f \in PublicFields \cap DOMAIN g |-> g[f]]

\* list.hideClaimedGifts as a condition: an undefined field is falsy
HidesClaimed(list) == Has(list, "hideClaimedGifts") /\ list.hideClaimedGifts

getPublicGifts_list(p, shareCode) ==
  /\ Begin(p, [op |-> "getPublicGifts", shareCode |-> shareCode])
  /\ LET items == FirstByShareCode(store, shareCode)
     IN IF items = {}
        THEN Finish(p, Err("NOT_FOUND"))
        ELSE \E i \in items :
               /\ Goto(p, "getPublicGifts_gifts")
               /\ loc' = [loc EXCEPT ![p] = [list |-> listItemToList(i)]]
  /\ UNCHANGED <<store, clock, nextList, nextGift, writes>>

\* a view that returns the gifts as the repository returns them
getPublicGifts_unfiltered(p) ==
  /\ pc[p] = "getPublicGifts_gifts"
  /\ Finish(p, Ok(getGiftsByList(store, loc[p].list.id)))
  /\ UNCHANGED <<store, clock, nextList, nextGift, call, writes>>

getPublicGifts_gifts(p) ==
  /\ pc[p] = "getPublicGifts_gifts"
  /\ LET list == loc[p].list
         gifts == getGiftsByList(store, list.id)
         shown == IF HidesClaimed(list)
                  THEN {g \in gifts : Has(g, "status") /\ g.status = "available"}
                  ELSE gifts
     IN Finish(p, Ok({PublicGift(g) : g \in shown}))
  /\ UNCHANGED <<store, clock, nextList, nextGift, call, writes>>

(***************************************************************************)
(* The environment: calls return, time passes, a store call fails.         *)
(***************************************************************************)
\* the caller has its answer; p serves the next request
Return(p) ==
  /\ pc[p] = "done"
  /\ pc' = [pc EXCEPT ![p] = "idle"]
  /\ call' = [call EXCEPT ![p] = NoCall]
  /\ out' = [out EXCEPT ![p] = NoOut]
  /\ writes' = [writes EXCEPT ![p] = 0]
  /\ UNCHANGED <<store, clock, nextList, nextGift, loc>>

Tick ==
  /\ clock < MaxClock
  /\ clock' = clock + 1
  /\ UNCHANGED <<store, nextList, nextGift, pc, call, loc, out, writes>>

\* the next store call of p's call throws (timeout, store unreachable, crash):
\* nothing is written and the error leaves the repository function as it is
StoreFail(p) ==
  /\ pc[p] \notin {"idle", "done"}
  /\ Finish(p, Err("StoreError"))
  /\ UNCHANGED <<store, clock, nextList, nextGift, call, writes>>

(***************************************************************************)
(* The requests callers send (validated by the schemas of validation.ts). *)
(***************************************************************************)
CreateListRequests == {[title |-> "t1", hideClaimedGifts |-> FALSE]}
UpdateListRequests == {[title |-> "t2"], [hideClaimedGifts |-> TRUE]}
CreateGiftRequests == {[title |-> "t1", description |-> "", sortOrder |-> 0]}
\* requests of a schema that lets status through
UpdateGiftRequestsWithStatus == {[title |-> "t2", status |-> "available"]}
UpdateGiftRequests == {[title |-> "t2"]}
\* claimerMessage is optional
ClaimGiftRequests ==
  [claimedBy : Names, claimerMessage : {""}] \cup [claimedBy : {"Bob"}]
ShareCodes == {"c1"}
\* the share codes of SpecView, and a code generateShareCode never returned
ViewCodes == {"c1", "c2"}
UnknownCode == "zz"
ViewListRequests == [title : {"t1"}, hideClaimedGifts : BOOLEAN]
ViewClaimRequests == {[claimedBy |-> "Bob", claimerMessage |-> "m"]}

Issued == (nextList - 1) + (nextGift - 1)

(***************************************************************************)
(* Spec: two calls on a list's gifts in flight, their store calls           *)
(* interleaved in every order.                                             *)
(***************************************************************************)
RaceProcs == 1..2

\* invocations are interchangeable: the free one of least index serves next
Turn(p, first) == \A q \in first..(p - 1) : pc[q] # "idle"

Next ==
  \E p \in RaceProcs :
    \/ \E r \in CreateListRequests, c \in ShareCodes :
         Turn(p, 1) /\ Issued < MaxIds /\ createList(p, Lister, r, c)
    \/ \E l \in KnownLists, o \in Owners : Turn(p, 1) /\ deleteList_read(p, l, o)
    \/ deleteList_query(p)
    \/ deleteList_batch(p)
    \/ \E l \in KnownLists, o \in Owners, r \in CreateGiftRequests :
         Turn(p, 1) /\ Issued < MaxIds /\ createGift_read(p, l, o, r)
    \/ createGift_put(p)
    \/ \E g \in KnownGifts, o \in Owners, r \in UpdateGiftRequests :
         Turn(p, 1) /\ updateGift_gift(p, g, o, r)
    \/ updateGift_list(p)
    \/ updateGift_write(p)
    \/ updateGift_return(p)
    \/ \E g \in KnownGifts, o \in Owners : Turn(p, 1) /\ deleteGift_gift(p, g, o)
    \/ deleteGift_list(p)
    \/ deleteGift_delete(p)
    \/ \E g \in KnownGifts, o \in Owners : Turn(p, 1) /\ unclaimGift_gift(p, g, o)
    \/ unclaimGift_list(p)
    \/ unclaimGift_write(p)
    \/ unclaimGift_return(p)
    \/ \E g \in KnownGifts, r \in ClaimGiftRequests :
         Turn(p, 1) /\ claimGift_read(p, g, r)
    \/ claimGift_update(p)
    \/ claimGift_return(p)
    \/ Return(p)

Spec == Init /\ [][Next]_vars

(***************************************************************************)
(* SpecClaim: gifters race for the gifts of a list, and the owner unclaims *)
(* between two races.  Invocation 1 serves the calls that set lists and    *)
(* gifts up; every claimGift and unclaimGift call is an invocation of its  *)
(* own, in the order of their indexes, and keeps its outcome.              *)
(***************************************************************************)
\* the invocation of least index
SetupProc == CHOOSE p \in Procs : \A q \in Procs : p <= q
ClaimProcs == Procs \ {SetupProc}

InFlight(q) == pc[q] \notin {"idle", "done"}
Unclaiming(q) == call[q].op = "unclaimGift" /\ InFlight(q)
Claiming(q) == call[q].op = "claimGift" /\ InFlight(q)

\* the gifts stored so far
StoredGifts == KnownGifts \ {UnknownId}

ClaimNext ==
  \/ Tick
  \/ \E r \in CreateListRequests, c \in ShareCodes :
       Issued < ClaimIds /\ createList(SetupProc, Lister, r, c)
  \/ \E l \in KnownLists, r \in CreateGiftRequests :
       Issued < ClaimIds /\ createGift_read(SetupProc, l, Lister, r)
  \/ createGift_put(SetupProc)
  \/ Return(SetupProc)
  \/ \E p \in ClaimProcs :
    \/ \E g \in StoredGifts, r \in ClaimGiftRequests :
         /\ Turn(p, 2)
         /\ \A q \in ClaimProcs : ~Unclaiming(q)
         /\ claimGift_read(p, g, r)
    \/ claimGift_update(p)
    \/ claimGift_return(p)
    \/ \E g \in StoredGifts :
         /\ Turn(p, 2)
         /\ \A q \in ClaimProcs : ~Claiming(q) /\ ~Unclaiming(q)
         /\ unclaimGift_gift(p, g, Lister)
    \/ unclaimGift_list(p)
    \/ unclaimGift_write(p)
    \/ unclaimGift_return(p)

SpecClaim == Init /\ [][ClaimNext]_vars

(***************************************************************************)
(* SpecSeq: one call at a time, and store calls may fail.                  *)
(***************************************************************************)
Quiet == \A q \in Procs : ~InFlight(q)
SeqProc == SetupProc

SeqNext ==
  \/ \E r \in CreateListRequests, c \in ShareCodes :
       Issued < SeqIds /\ createList(SeqProc, Lister, r, c)
  \/ \E l \in KnownLists, o \in Owners, r \in UpdateListRequests :
       updateList_read(SeqProc, l, o, r)
  \/ updateList_write(SeqProc)
  \/ updateList_return(SeqProc)
  \/ \E l \in KnownLists, o \in Owners : deleteList_read(SeqProc, l, o)
  \/ deleteList_query(SeqProc)
  \/ deleteList_batch(SeqProc)
  \/ \E l \in KnownLists, o \in Owners, r \in CreateGiftRequests :
       Issued < SeqIds /\ createGift_read(SeqProc, l, o, r)
  \/ createGift_put(SeqProc)
  \/ \E g \in KnownGifts, o \in Owners, r \in UpdateGiftRequests :
       updateGift_gift(SeqProc, g, o, r)
  \/ updateGift_list(SeqProc)
  \/ updateGift_write(SeqProc)
  \/ updateGift_return(SeqProc)
  \/ \E g \in KnownGifts, o \in Owners : deleteGift_gift(SeqProc, g, o)
  \/ deleteGift_list(SeqProc)
  \/ deleteGift_delete(SeqProc)
  \/ \E g \in KnownGifts, o \in Owners : unclaimGift_gift(SeqProc, g, o)
  \/ unclaimGift_list(SeqProc)
  \/ unclaimGift_write(SeqProc)
  \/ unclaimGift_return(SeqProc)
  \/ \E g \in KnownGifts, r \in ClaimGiftRequests : claimGift_read(SeqProc, g, r)
  \/ claimGift_update(SeqProc)
  \/ claimGift_return(SeqProc)
  \/ StoreFail(SeqProc)
  \/ Return(SeqProc)

SpecSeq == Init /\ [][SeqNext]_vars

(***************************************************************************)
(* SpecDelete: the owner deletes lists, one call at a time, and a store    *)
(* call may fail.  Invocation 1 sets lists and gifts up; every deleteList  *)
(* call is an invocation of its own, in the order of their indexes, and    *)
(* keeps its outcome.                                                      *)
(***************************************************************************)
DeleteProcs == 2..4

DeleteNext ==
  \/ \E r \in CreateListRequests, c \in ShareCodes :
       Quiet /\ Issued < DeleteIds /\ createList(SetupProc, Lister, r, c)
  \/ \E l \in KnownLists, r \in CreateGiftRequests :
       Quiet /\ Issued < DeleteIds /\ createGift_read(SetupProc, l, Lister, r)
  \/ createGift_put(SetupProc)
  \/ Return(SetupProc)
  \/ \E p \in DeleteProcs :
    \/ \E l \in KnownLists \ {UnknownId} :
         Quiet /\ Turn(p, 2) /\ deleteList_read(p, l, Lister)
    \/ deleteList_query(p)
    \/ deleteList_batch(p)
    \/ call[p].op = "deleteList" /\ StoreFail(p)

SpecDelete == Init /\ [][DeleteNext]_vars

(***************************************************************************)
(* Properties of claiming (SpecClaim, Spec).                               *)
(***************************************************************************)
GiftKeys(st) == {k \in DOMAIN st : k[2][1] = "GIFT"}
StatusOf(st, k) == IF Has(st[k], "status") THEN st[k].status ELSE "none"

\* the claimGift calls made on gift g so far, and the unclaimGift calls
ClaimsOn(g) == {p \in ClaimProcs : call[p].op = "claimGift" /\ call[p].giftId = g}
UnclaimsOn(g) == {p \in ClaimProcs : call[p].op = "unclaimGift" /\ call[p].giftId = g}
Succeeded(S) == {p \in S : pc[p] = "done" /\ out[p].code = "OK"}
Returned(S) == \A p \in S : pc[p] = "done"

\* C1: once every claimGift call made on a gift that was stored as available
\* has returned, with no unclaimGift call made on that gift, exactly one of the
\* calls has succeeded and each of the others has failed with ALREADY_CLAIMED.
C1_ExactlyOneClaimSucceeds ==
  \A g \in StoredGifts :
    (ClaimsOn(g) # {} /\ Returned(ClaimsOn(g)) /\ UnclaimsOn(g) = {})
    => /\ Cardinality(Succeeded(ClaimsOn(g))) = 1
       /\ \A p \in ClaimsOn(g) : out[p].code \in {"OK", "ALREADY_CLAIMED"}

\* the racing calls of C1 have all returned and none of them has succeeded
C1_NoClaimSucceeded ==
  \E g \in StoredGifts :
    /\ Cardinality(ClaimsOn(g)) >= 2
    /\ Returned(ClaimsOn(g)) /\ UnclaimsOn(g) = {}
    /\ Succeeded(ClaimsOn(g)) = {}

\* the requests that carry a claimerMessage
WithMessage(S) == \A p \in S : Has(call[p].request, "claimerMessage")

\* C1 for the calls whose requests all carry a claimerMessage
ExactlyOneClaimWithMessageSucceeds ==
  \A g \in StoredGifts :
    (ClaimsOn(g) # {} /\ Returned(ClaimsOn(g)) /\ UnclaimsOn(g) = {}
     /\ WithMessage(ClaimsOn(g)))
    => /\ Cardinality(Succeeded(ClaimsOn(g))) = 1
       /\ \A p \in ClaimsOn(g) : out[p].code \in {"OK", "ALREADY_CLAIMED"}

\* the step in which p's conditional update is applied
ClaimWrites(p) == pc[p] = "claimGift_update" /\ pc'[p] = "claimGift_return"
ClaimKey(p) == GiftKey(loc[p].listId, call[p].giftId)

\* the claim of record k is written or rewritten by the step
ClaimChanges(k) ==
  /\ k \in GiftKeys(store')
  /\ \/ StatusOf(store', k) = "claimed" /\ (k \notin DOMAIN store \/ StatusOf(store, k) # "claimed")
     \/ \E f \in {"claimedBy", "claimerMessage", "claimedAt"} :
          /\ Has(store'[k], f)
          /\ k \in DOMAIN store => (~Has(store[k], f) \/ store[k][f] # store'[k][f])

\* C2: a claimGift write is applied only to a record whose stored status is
\* available at the step of the write, and every step that writes or rewrites
\* the claim of a record starts from the status available: a claim is never
\* written over a claim, and a second claim needs the status to be set back.
C2_ClaimOnlyWhenAvailable ==
  [][/\ \A p \in Procs : ClaimWrites(p) =>
          ClaimKey(p) \in DOMAIN store /\ StatusOf(store, ClaimKey(p)) = "available"
     /\ \A k \in DOMAIN store' : ClaimChanges(k) =>
          k \in DOMAIN store /\ StatusOf(store, k) = "available"]_vars

\* one claimGift has written its claim and the other, racing on the same gift,
\* has been refused
C2_RaceLost ==
  \E p, q \in Procs :
    /\ pc[p] = "claimGift_return"
    /\ pc[q] = "done" /\ call[q].op = "claimGift" /\ out[q].code = "ALREADY_CLAIMED"
    /\ call[p].giftId = call[q].giftId

\* the step in which p's conditional update is refused or fails
ClaimEnds(p) == pc[p] = "claimGift_update" /\ pc'[p] = "done"

\* C3: a claimGift whose update finds the stored status claimed fails with
\* ALREADY_CLAIMED and leaves the store as it is.
C3_ClaimedGiftRefuses ==
  [][\A p \in Procs :
       (/\ pc[p] = "claimGift_update" /\ pc'[p] # pc[p]
        /\ ClaimKey(p) \in DOMAIN store /\ StatusOf(store, ClaimKey(p)) = "claimed")
       => ClaimEnds(p) /\ out'[p].code = "ALREADY_CLAIMED" /\ store' = store]_vars

\* C3 for the requests that carry a claimerMessage
ClaimedGiftRefusesWithMessage ==
  [][\A p \in Procs :
       (/\ pc[p] = "claimGift_update" /\ pc'[p] # pc[p]
        /\ Has(call[p].request, "claimerMessage")
        /\ ClaimKey(p) \in DOMAIN store /\ StatusOf(store, ClaimKey(p)) = "claimed")
       => ClaimEnds(p) /\ out'[p].code = "ALREADY_CLAIMED" /\ store' = store]_vars

\* a claimGift on a claimed gift has ended with another error than ALREADY_CLAIMED
C3_ClaimedGiftOtherError ==
  \E p \in ClaimProcs, k \in GiftKeys(store) :
    /\ call[p].op = "claimGift" /\ pc[p] = "done" /\ k[2] = GiftSK(call[p].giftId)
    /\ StatusOf(store, k) = "claimed"
    /\ out[p].code \notin {"OK", "ALREADY_CLAIMED"}
    /\ \E q \in ClaimProcs : q < p /\ q \in Succeeded(ClaimsOn(call[p].giftId))


\* C4: in every state every gift record carries claimedBy and claimedAt exactly
\* when its status is claimed, and claimerMessage only when its status is
\* claimed; every write being one step, the claim fields are set by the write
\* that sets the status to claimed and removed by the write that sets it to
\* available.
C4_ClaimFieldsIffClaimed ==
  \A k \in GiftKeys(store) :
    /\ Has(store[k], "claimedBy") <=> StatusOf(store, k) = "claimed"
    /\ Has(store[k], "claimedAt") <=> StatusOf(store, k) = "claimed"
    /\ Has(store[k], "claimerMessage") => StatusOf(store, k) = "claimed"

\* an unclaimGift has written between the write and the re-read of a claimGift
\* on the same gift, whose record is available again
C4_UnclaimDuringClaim ==
  \E p, q \in Procs :
    /\ pc[p] = "unclaimGift_return" /\ pc[q] = "claimGift_return"
    /\ call[p].giftId = call[q].giftId
    /\ \E k \in GiftKeys(store) :
         k[2] = GiftSK(call[p].giftId) /\ StatusOf(store, k) = "available"

\* the claimGift calls on g made before and after call u
ClaimsBefore(g, u) == {p \in ClaimsOn(g) : p < u}
ClaimsAfter(g, u) == {p \in ClaimsOn(g) : p > u}
\* u is the last unclaimGift of the owner on g, it has succeeded, and g had been claimed
Unclaimed(g, u) ==
  /\ u \in Succeeded(UnclaimsOn(g))
  /\ Succeeded(ClaimsBefore(g, u)) # {}
  /\ \A v \in UnclaimsOn(g) : v <= u

\* C5: after the owner's unclaimGift on a claimed gift has completed, the gift
\* is available with no claim field until a claimGift is made on it, and once
\* the claimGift calls made after the unclaim have returned, exactly one of
\* them has succeeded and each of the others has failed with ALREADY_CLAIMED.
C5_ClaimAfterUnclaim ==
  \A g \in StoredGifts : \A u \in ClaimProcs :
    Unclaimed(g, u) =>
      /\ ClaimsAfter(g, u) = {} =>
           \A k \in GiftKeys(store) : k[2] = GiftSK(g) =>
             /\ StatusOf(store, k) = "available"
             /\ \A f \in {"claimedBy", "claimerMessage", "claimedAt"} : ~Has(store[k], f)
      /\ (ClaimsAfter(g, u) # {} /\ Returned(ClaimsAfter(g, u))) =>
           /\ Cardinality(Succeeded(ClaimsAfter(g, u))) = 1
           /\ \A p \in ClaimsAfter(g, u) : out[p].code \in {"OK", "ALREADY_CLAIMED"}

\* C5 for the later calls whose requests all carry a claimerMessage
ClaimWithMessageAfterUnclaim ==
  \A g \in StoredGifts : \A u \in ClaimProcs :
    Unclaimed(g, u) =>
      /\ ClaimsAfter(g, u) = {} =>
           \A k \in GiftKeys(store) : k[2] = GiftSK(g) =>
             /\ StatusOf(store, k) = "available"
             /\ \A f \in {"claimedBy", "claimerMessage", "claimedAt"} : ~Has(store[k], f)
      /\ (ClaimsAfter(g, u) # {} /\ Returned(ClaimsAfter(g, u))
          /\ WithMessage(ClaimsAfter(g, u))) =>
           /\ Cardinality(Succeeded(ClaimsAfter(g, u))) = 1
           /\ \A p \in ClaimsAfter(g, u) : out[p].code \in {"OK", "ALREADY_CLAIMED"}

\* a gift was claimed and unclaimed, and the claimGift made on it afterwards
\* has returned without success
C5_NoClaimAfterUnclaim ==
  \E g \in StoredGifts, u \in ClaimProcs :
    /\ Unclaimed(g, u)
    /\ ClaimsAfter(g, u) # {} /\ Returned(ClaimsAfter(g, u))
    /\ Succeeded(ClaimsAfter(g, u)) = {}

\* a gift was claimed and unclaimed, and of two claimGift calls made on it
\* afterwards one has succeeded and one has been refused
C5_ClaimedAgain ==
  \E g \in StoredGifts, u \in ClaimProcs :
    /\ Unclaimed(g, u)
    /\ Cardinality(ClaimsAfter(g, u)) = 2 /\ Returned(ClaimsAfter(g, u))
    /\ Cardinality(Succeeded(ClaimsAfter(g, u))) = 1

\* the steps of the two writes that change a status
UnclaimWrites(p) == pc[p] = "unclaimGift_write" /\ pc'[p] = "unclaimGift_return"
CreateWrites(p) ==
  pc[p] = "createGift_put" /\ pc'[p] = "done" /\ out'[p].code = "OK"

ListOps == {"updateList", "deleteList", "createGift"}
GiftOps == {"updateGift", "deleteGift", "unclaimGift"}
OwnerGated == ListOps \cup GiftOps

\* the list a call is about: the list it names, or the list of the gift it names
TargetList(st, c) ==
  IF c.op \in ListOps THEN getListById(st, c.listId)
  ELSE LET gift == getGiftById(st, c.giftId)
       IN IF gift = Null THEN Null ELSE getListById(st, gift.listId)

\* C7: an owner-gated call on an existing list, or on an existing gift of an
\* existing list, by a caller who is not the owner of the list, has failed
\* with FORBIDDEN when it returns (unless the store failed it).
C7_OtherCallerForbidden ==
  \A p \in Procs :
    (pc[p] = "done" /\ call[p].op \in OwnerGated /\ out[p].code # "StoreError") =>
      LET list == TargetList(store, call[p])
      IN (list # Null /\ list.ownerId # call[p].ownerId) => out[p].code = "FORBIDDEN"

\* an unclaimGift by another caller than the owner was refused: the gift is
\* still claimed
C7_UnclaimForbidden ==
  \E p \in Procs :
    /\ pc[p] = "done" /\ call[p].op = "unclaimGift" /\ out[p].code = "FORBIDDEN"
    /\ call[p].ownerId # Lister
    /\ getGiftById(store, call[p].giftId) # Null
    /\ getGiftById(store, call[p].giftId).status = "claimed"

\* C8: an owner-gated call that fails with FORBIDDEN or NOT_FOUND has sent no
\* write command, and the step in which it fails leaves the store as it is;
\* no step changes the store without a write command being counted.
C8_RefusedCallWritesNothing ==
  [][/\ \A p \in Procs :
          (/\ pc[p] # "done" /\ pc'[p] = "done" /\ call'[p].op \in OwnerGated
           /\ out'[p].code \in {"FORBIDDEN", "NOT_FOUND"})
          => writes[p] = 0 /\ writes'[p] = 0 /\ store' = store
     /\ store' # store => \E p \in Procs : writes'[p] = writes[p] + 1]_vars

\* a deleteGift by another caller than the owner was refused, and the gift is
\* stored
C8_DeleteGiftForbidden ==
  \E p \in Procs :
    /\ pc[p] = "done" /\ call[p].op = "deleteGift" /\ out[p].code = "FORBIDDEN"
    /\ writes[p] = 0
    /\ getGiftById(store, call[p].giftId) # Null

\* the records stored under the partition of list listId
Partition(st, listId) == {k \in DOMAIN st : k[1] = ListPK(listId)}

\* C9: when deleteList has returned without error, with no other call made
\* meanwhile, getGiftsByList of the list is empty and getListById is null.
C9_DeleteListCascades ==
  \A p \in Procs :
    (pc[p] = "done" /\ call[p].op = "deleteList" /\ out[p].code = "OK") =>
      /\ getGiftsByList(store, call[p].listId) = {}
      /\ getListById(store, call[p].listId) = Null

\* a deleteList that took more than one batch has returned without error
C9_DeletedInBatches ==
  \E p \in Procs :
    /\ pc[p] = "done" /\ call[p].op = "deleteList" /\ out[p].code = "OK"
    /\ writes[p] >= 2
    /\ Partition(store, call[p].listId) = {}

\* the deleteList calls of the owner on a list, and those the store failed
\* after at least one batch
DeletesOf(listId) ==
  {p \in DeleteProcs : call[p].op = "deleteList" /\ call[p].listId = listId}
Stopped(p) == pc[p] = "done" /\ out[p].code = "StoreError" /\ writes[p] > 0

\* C10: when a deleteList of the owner was stopped by a store failure after
\* some of its batches, a later deleteList of the owner on the same list that
\* the store does not fail returns without error and leaves no record under
\* the partition of the list.
C10_RetryCompletesDelete ==
  \A l \in KnownLists : \A p, q \in DeletesOf(l) :
    (p < q /\ Stopped(p) /\ pc[q] = "done" /\ out[q].code # "StoreError") =>
      out[q].code = "OK" /\ Partition(store, l) = {}

\* after a stopped deleteList the owner's next deleteList is refused with
\* NOT_FOUND, and gift records of the list are still stored
C10_RetryRefused ==
  \E l \in KnownLists : \E p, q \in DeletesOf(l) :
    /\ p < q /\ Stopped(p)
    /\ pc[q] = "done" /\ out[q].code = "NOT_FOUND"
    /\ getGiftsByList(store, l) # {}


(***************************************************************************)
(* Properties of lists and their gifts.                                    *)
(***************************************************************************)
\* the gift records whose list record is not stored
Orphans(st) == {k \in GiftKeys(st) : <<k[1], MetadataSK>> \notin DOMAIN st}

\* C11: in every state in which no call is in flight, every gift record has
\* the record of its list in the store, whatever calls ran concurrently with a
\* deleteList of the list.
C11_GiftHasList == Quiet => Orphans(store) = {}

\* a createGift that read the list before a deleteList of it and put its item
\* after it: both have returned without error and the gift is stored alone
C11_GiftPutAfterDelete ==
  \E p, q \in Procs :
    /\ pc[p] = "done" /\ call[p].op = "createGift" /\ out[p].code = "OK"
    /\ pc[q] = "done" /\ call[q].op = "deleteList" /\ out[q].code = "OK"
    /\ call[q].listId = call[p].listId
    /\ GiftKey(call[p].listId, out[p].value.id) \in Orphans(store)


(***************************************************************************)
(* SpecView: lists of two owners and their gifts are created, changed,     *)
(* deleted and read, one call at a time; createList draws the share code   *)
(* from ViewCodes, the same code twice included.                           *)
(***************************************************************************)
ViewNext ==
  \/ \E o \in Owners, r \in ViewListRequests, c \in ViewCodes :
       Issued < ViewIds /\ createList(SeqProc, o, r, c)
  \/ \E l \in KnownLists, r \in UpdateListRequests :
       updateList_read(SeqProc, l, Lister, r)
  \/ updateList_write(SeqProc)
  \/ updateList_return(SeqProc)
  \/ \E l \in KnownLists \ {UnknownId}, o \in Owners : deleteList_read(SeqProc, l, o)
  \/ deleteList_query(SeqProc)
  \/ deleteList_batch(SeqProc)
  \/ \E c \in ViewCodes \cup {UnknownCode} : getListByShareCode(SeqProc, c)
  \/ \E l \in KnownLists \ {UnknownId}, o \in Owners, r \in CreateGiftRequests :
       Issued < ViewIds /\ createGift_read(SeqProc, l, o, r)
  \/ createGift_put(SeqProc)
  \/ \E g \in StoredGifts, r \in ViewClaimRequests : claimGift_read(SeqProc, g, r)
  \/ claimGift_update(SeqProc)
  \/ claimGift_return(SeqProc)
  \/ \E g \in StoredGifts, o \in Owners : unclaimGift_gift(SeqProc, g, o)
  \/ unclaimGift_list(SeqProc)
  \/ unclaimGift_write(SeqProc)
  \/ unclaimGift_return(SeqProc)
  \/ \E g \in StoredGifts, o \in Owners : deleteGift_gift(SeqProc, g, o)
  \/ deleteGift_list(SeqProc)
  \/ deleteGift_delete(SeqProc)
  \/ \E c \in ViewCodes \cup {UnknownCode} : getPublicGifts_list(SeqProc, c)
  \/ getPublicGifts_gifts(SeqProc)
  \/ \E o \in Owners : getListsByOwner_query(SeqProc, o)
  \/ getListsByOwner_gifts(SeqProc)
  \/ \E l \in KnownLists, o \in Owners : getList(SeqProc, l, o)
  \/ \E l \in KnownLists, o \in Owners : getGifts(SeqProc, l, o)
  \/ Return(SeqProc)

SpecView == Init /\ [][ViewNext]_vars

(***************************************************************************)
(* Properties of the reads (SpecView).                                     *)
(***************************************************************************)
ListRecords(st) == {k \in DOMAIN st : k[2] = MetadataSK}
\* the list records that carry share code c
Carriers(st, c) ==
  {k \in ListRecords(st) : Has(st[k], "shareUrl") /\ st[k].shareUrl = ShareUrl(c)}

\* C12: getListByShareCode(c) returns null exactly when no stored list record
\* carries the share code c (a code never issued, or the code of a deleted
\* list), and otherwise returns a stored list that carries c.
C12_ByShareCode ==
  \A p \in Procs :
    (pc[p] = "done" /\ call[p].op = "getListByShareCode") =>
      /\ out[p].code = "OK"
      /\ IF Carriers(store, call[p].shareCode) = {}
         THEN out[p].value = Null
         ELSE \E k \in Carriers(store, call[p].shareCode) :
                out[p].value = listItemToList(store[k])

\* two lists with different share codes are stored and the lookup has returned
\* the one of the code asked for
C12_FoundAmongTwo ==
  \E p \in Procs :
    /\ pc[p] = "done" /\ call[p].op = "getListByShareCode"
    /\ out[p].value # Null
    /\ Cardinality(Carriers(store, call[p].shareCode)) = 1
    /\ \E c \in ViewCodes : c # call[p].shareCode /\ Carriers(store, c) # {}


CodeOf(item) ==
  [key |-> IF Has(item, "GSI2PK") THEN item.GSI2PK ELSE Null,
   url |-> IF Has(item, "shareUrl") THEN item.shareUrl ELSE Null]

Shown(st, k) ==
  IF Has(st[k], "hideClaimedGifts") /\ st[k].hideClaimedGifts
  THEN {g \in getGiftsByList(st, st[k].id) : g.status = "available"}
  ELSE getGiftsByList(st, st[k].id)

\* C14: the public view of a list reached through its share code holds, when
\* hideClaimedGifts is true, the gifts of the list whose status is available
\* and no other, and when it is false all the gifts of the list; each gift of
\* the view has the id, title, description, url and status of the stored gift
\* and no other field.
C14_PublicView ==
  \A p \in Procs :
    (pc[p] = "done" /\ call[p].op = "getPublicGifts" /\ out[p].code = "OK") =>
      \E k \in Carriers(store, call[p].shareCode) :
        /\ \A v \in out[p].value : DOMAIN v \subseteq PublicFields
        /\ {v.id : v \in out[p].value} = {g.id : g \in Shown(store, k)}
        /\ \A v \in out[p].value : \E g \in Shown(store, k) :
             \A f \in PublicFields : Has(g, f) => Has(v, f) /\ v[f] = g[f]

\* the public view of a list that hides claimed gifts has returned one gift,
\* and the list has a claimed gift too
C14_ClaimedHidden ==
  \E p \in Procs :
    /\ pc[p] = "done" /\ call[p].op = "getPublicGifts" /\ out[p].code = "OK"
    /\ Cardinality(out[p].value) = 1
    /\ \E k \in Carriers(store, call[p].shareCode) :
         /\ store[k].hideClaimedGifts
         /\ \E g \in getGiftsByList(store, store[k].id) : g.status = "claimed"

\* the public view of a list that shows claimed gifts has returned a claimed gift
C14_ClaimedShown ==
  \E p \in Procs :
    /\ pc[p] = "done" /\ call[p].op = "getPublicGifts" /\ out[p].code = "OK"
    /\ \E v \in out[p].value : v.status = "claimed"


\* the owner of the stored list listId: no owner without the list
OwnerOf(st, listId) ==
  LET list == getListById(st, listId)
  IN IF list # Null /\ Has(list, "ownerId") THEN {list.ownerId} ELSE {}

\* C15: a lister endpoint that has returned a list, or gifts of a list, was
\* called by the owner of that list.
C15_OwnListsOnly ==
  \A p \in Procs :
    (pc[p] = "done" /\ out[p].code = "OK") =>
      /\ call[p].op = "getList" => out[p].value.ownerId = call[p].userId
      /\ call[p].op = "getListsByOwner" =>
           \A n \in DOMAIN out[p].value : out[p].value[n].ownerId = call[p].ownerId
      /\ (call[p].op = "getGifts" /\ out[p].value # {}) =>
           OwnerOf(store, call[p].listId) = {call[p].userId}

\* C15 for the two endpoints that return lists
OwnListsOnlyByList ==
  \A p \in Procs :
    (pc[p] = "done" /\ out[p].code = "OK") =>
      /\ call[p].op = "getList" =>
           out[p].value.ownerId = call[p].userId
           /\ OwnerOf(store, call[p].listId) = {call[p].userId}
      /\ call[p].op = "getListsByOwner" =>
           \A n \in DOMAIN out[p].value :
             /\ out[p].value[n].ownerId = call[p].ownerId
             /\ OwnerOf(store, out[p].value[n].id) = {call[p].ownerId}

\* getGifts has returned to another user than the owner a gift of the list
\* with the name of its claimant
C15_ClaimantRevealed ==
  \E p \in Procs :
    /\ pc[p] = "done" /\ call[p].op = "getGifts" /\ out[p].code = "OK"
    /\ OwnerOf(store, call[p].listId) # {}
    /\ call[p].userId \notin OwnerOf(store, call[p].listId)
    /\ \E g \in out[p].value : Has(g, "claimedBy")


\* C16: an updateGift, deleteGift or unclaimGift that the store did not fail
\* has ended with NOT_FOUND when the gift is not stored, and when the gift is
\* stored and the record of its list is not; it has ended with FORBIDDEN only
\* when the list is stored and its owner is another user than the caller.
C16_MissingListNotFound ==
  \A p \in Procs :
    (pc[p] = "done" /\ call[p].op \in GiftOps /\ out[p].code # "StoreError") =>
      LET gift == getGiftById(store, call[p].giftId)
          list == IF gift = Null THEN Null ELSE getListById(store, gift.listId)
      IN /\ (gift = Null /\ out[p].code # "OK") => out[p].code = "NOT_FOUND"
         /\ (gift # Null /\ list = Null) => out[p].code = "NOT_FOUND"
         /\ out[p].code = "FORBIDDEN" =>
              list # Null /\ list.ownerId # call[p].ownerId

\* the owner's call on a gift whose list record is gone has ended with FORBIDDEN
C16_MissingListForbidden ==
  \E p \in Procs :
    /\ pc[p] = "done" /\ call[p].op \in GiftOps /\ out[p].code = "FORBIDDEN"
    /\ call[p].ownerId = Lister
    /\ getGiftById(store, call[p].giftId) # Null
    /\ getListById(store, getGiftById(store, call[p].giftId).listId) = Null

\* C16 for the gifts whose list record is stored
StoredListChecked ==
  \A p \in Procs :
    (pc[p] = "done" /\ call[p].op \in GiftOps /\ out[p].code # "StoreError") =>
      LET gift == getGiftById(store, call[p].giftId)
          list == IF gift = Null THEN Null ELSE getListById(store, gift.listId)
      IN /\ (gift = Null /\ out[p].code # "OK") => out[p].code = "NOT_FOUND"
         /\ (out[p].code = "FORBIDDEN" /\ list # Null) =>
              list.ownerId # call[p].ownerId
         /\ (gift # Null /\ list # Null /\ list.ownerId = call[p].ownerId) =>
              out[p].code = "OK"


\* the gift records stored under list listId, and the claimed ones
GiftsUnder(st, listId) == {k \in GiftKeys(st) : k[1] = ListPK(listId)}
ClaimedUnder(st, listId) ==
  {k \in GiftsUnder(st, listId) : StatusOf(st, k) = "claimed"}

\* C17: for every list getListsByOwner has returned, after calls that all
\* completed before it, giftCount is the number of gift records stored under
\* the list and claimedCount the number of those whose status is claimed.
C17_CountsAreTrue ==
  \A p \in Procs :
    (pc[p] = "done" /\ call[p].op = "getListsByOwner" /\ out[p].code = "OK") =>
      \A n \in DOMAIN out[p].value :
        LET list == out[p].value[n]
        IN /\ list.giftCount = Cardinality(GiftsUnder(store, list.id))
           /\ list.claimedCount = Cardinality(ClaimedUnder(store, list.id))

\* getListsByOwner has returned a list with two gifts, one of them claimed
C17_OneOfTwoClaimed ==
  \E p \in Procs :
    /\ pc[p] = "done" /\ call[p].op = "getListsByOwner" /\ out[p].code = "OK"
    /\ \E n \in DOMAIN out[p].value :
         out[p].value[n].giftCount = 2 /\ out[p].value[n].claimedCount = 1


\* the ids of the stored list records whose ownerId is o
ListsOwnedBy(st, o) ==
  {k[1][2] : k \in {k2 \in ListRecords(st) :
                      Has(st[k2], "ownerId") /\ st[k2].ownerId = o}}

\* C18: getListsByOwner(o) returns every stored list whose ownerId is o exactly
\* once, no list of another owner, and nothing that is not a stored list
\* record (no gift record, although gifts share the GSI1 index).
C18_ExactlyOwnLists ==
  \A p \in Procs :
    (pc[p] = "done" /\ call[p].op = "getListsByOwner" /\ out[p].code = "OK") =>
      LET lists == out[p].value
      IN /\ {lists[n].id : n \in DOMAIN lists} = ListsOwnedBy(store, call[p].ownerId)
         /\ Len(lists) = Cardinality(ListsOwnedBy(store, call[p].ownerId))
         /\ \A n \in DOMAIN lists :
              /\ lists[n].ownerId = call[p].ownerId
              /\ Has(store, ListKey(lists[n].id))
              /\ [f \in ListFields \cap DOMAIN lists[n] |-> lists[n][f]]
                   = listItemToList(store[ListKey(lists[n].id)])

\* getListsByOwner has returned the one list of its owner while a list of the
\* other owner and a gift are stored
C18_OneOfTwoOwners ==
  \E p \in Procs :
    /\ pc[p] = "done" /\ call[p].op = "getListsByOwner" /\ out[p].code = "OK"
    /\ Len(out[p].value) = 1
    /\ \E o \in Owners \ {call[p].ownerId} : ListsOwnedBy(store, o) # {}
    /\ GiftKeys(store) # {}


\* the fields of the list record that an updateList call names: those of its
\* request, and updatedAt
UpdateListFields(p) == DOMAIN call[p].request \cup {"updatedAt"}

\* C19: the write of an updateList call on a stored list sets on the list
\* record the fields of the request and updatedAt and nothing else: id,
\* ownerId, share code, shareUrl, createdAt and every other attribute keep
\* their values, and every other record of the store (other lists, all gifts)
\* is left as it was, none added and none removed.
C19_UpdateListFrame ==
  [][\A p \in Procs :
       (/\ pc[p] = "updateList_write"
        /\ pc'[p] = "updateList_return"
        /\ Has(store, ListKey(call[p].listId))) =>
         LET k == ListKey(call[p].listId)
         IN /\ DOMAIN store' = DOMAIN store
            /\ \A j \in DOMAIN store \ {k} : store'[j] = store[j]
            /\ DOMAIN store'[k] = DOMAIN store[k] \cup UpdateListFields(p)
            /\ \A a \in DOMAIN call[p].request : store'[k][a] = call[p].request[a]
            /\ \A a \in DOMAIN store[k] \ UpdateListFields(p) :
                 store'[k][a] = store[k][a]
            /\ {"id", "ownerId", "shareUrl", "GSI2PK", "createdAt"}
                 \subseteq DOMAIN store[k] \ UpdateListFields(p)]_vars

\* an updateList of the title alone has returned a list that still hides its
\* claimed gifts, while a gift of the list and another list are stored
C19_TitleOnlyUpdated ==
  \E p \in Procs :
    /\ pc[p] = "done" /\ call[p].op = "updateList" /\ out[p].code = "OK"
    /\ call[p].request = [title |-> "t2"]
    /\ out[p].value.title = "t2"
    /\ out[p].value.hideClaimedGifts = TRUE
    /\ out[p].value.ownerId = call[p].ownerId
    /\ GiftsUnder(store, call[p].listId) # {}
    /\ ListRecords(store) \ {ListKey(call[p].listId)} # {}


\* the fields of the gift record that an updateGift call names: those of its
\* request, and updatedAt
UpdateGiftFields(p) == DOMAIN call[p].request \cup {"updatedAt"}

\* C20: the write of an updateGift call on a stored gift, in every
\* interleaving with other calls on the gift, sets on the gift record the
\* fields of the request (among title, description, url, sortOrder) and
\* updatedAt and nothing else: id, listId, createdAt, status, claimedBy,
\* claimerMessage and claimedAt are after the write what they were just before
\* it (present with the same value, or absent), and no other record changes.
C20_UpdateGiftFrame ==
  [][\A p \in Procs :
       (/\ pc[p] = "updateGift_write"
        /\ pc'[p] = "updateGift_return"
        /\ Has(store, GiftKey(loc[p].listId, call[p].giftId))) =>
         LET k == GiftKey(loc[p].listId, call[p].giftId)
         IN /\ DOMAIN store' = DOMAIN store
            /\ \A j \in DOMAIN store \ {k} : store'[j] = store[j]
            /\ DOMAIN call[p].request \subseteq {"title", "description", "url", "sortOrder"}
            /\ DOMAIN store'[k] = DOMAIN store[k] \cup UpdateGiftFields(p)
            /\ \A a \in DOMAIN call[p].request : store'[k][a] = call[p].request[a]
            /\ \A a \in DOMAIN store[k] \ UpdateGiftFields(p) :
                 store'[k][a] = store[k][a]
            /\ StatusOf(store', k) = StatusOf(store, k)]_vars

\* an updateGift has written the title of a gift while a claimGift call that
\* has claimed the gift is still in flight, and the gift is still claimed
C20_UpdatedWhileClaimed ==
  \E p, q \in Procs :
    /\ pc[p] = "updateGift_return" /\ call[p].op = "updateGift"
    /\ pc[q] = "claimGift_return" /\ call[q].giftId = call[p].giftId
    /\ LET k == GiftKey(loc[p].listId, call[p].giftId)
       IN /\ Has(store, k)
          /\ StatusOf(store, k) = "claimed"
          /\ Has(store[k], "claimedBy")
          /\ store[k].claimedBy = call[q].request.claimedBy
          /\ store[k].title = "t2"


\* the step in which call op of p ends with the outcome code
Ends(p, op, code) ==
  pc[p] \notin {"idle", "done"} /\ pc'[p] = "done" /\ call'[p].op = op /\ out'[p].code = code

\* the step that begins and ends call op of p with the outcome code
EndsAtOnce(p, op, code) ==
  pc[p] = "idle" /\ pc'[p] = "done" /\ call'[p].op = op /\ out'[p].code = code

\* C21: with one call at a time, createGift(listId, caller, fields) ends with
\* NOT_FOUND when no list record is stored for listId and with FORBIDDEN when
\* the list's owner is not the caller, writing nothing; otherwise its put adds
\* exactly one record, under a key that was free, in the partition of the list,
\* with listId the given list, status available, no claim field and createdAt
\* = updatedAt, every other record being left as it was, and the gift it
\* returns is then what getGiftById(id) returns and among getGiftsByList(listId).
C21_CreateGift ==
  [][\A p \in Procs :
       /\ (pc[p] = "idle" /\ pc'[p] # "idle" /\ call'[p].op = "createGift") =>
            LET list == getListById(store, call'[p].listId)
            IN /\ store' = store
               /\ (list = Null) <=> EndsAtOnce(p, "createGift", "NOT_FOUND")
               /\ (list # Null /\ list.ownerId # call'[p].ownerId)
                    <=> EndsAtOnce(p, "createGift", "FORBIDDEN")
               /\ (list # Null /\ list.ownerId = call'[p].ownerId)
                    <=> pc'[p] = "createGift_put"
       /\ Ends(p, "createGift", "OK") =>
            LET gift == out'[p].value
                k == GiftKey(call[p].listId, gift.id)
            IN /\ k \notin DOMAIN store
               /\ DOMAIN store' = DOMAIN store \cup {k}
               /\ \A j \in DOMAIN store : store'[j] = store[j]
               /\ \A j \in GiftKeys(store) : store[j].id # gift.id
               /\ store'[k].listId = call[p].listId
               /\ store'[k].status = "available"
               /\ DOMAIN store'[k] \cap ClaimFields = {}
               /\ store'[k].createdAt = store'[k].updatedAt
               /\ \A f \in DOMAIN call[p].request : store'[k][f] = call[p].request[f]
               /\ getGiftById(store', gift.id) = gift
               /\ gift \in getGiftsByList(store', call[p].listId)]_vars

\* a createGift has returned the second gift of a list: two gift records are
\* stored under the list
C21_SecondGiftAdded ==
  \E p \in Procs :
    /\ pc[p] = "done" /\ call[p].op = "createGift" /\ out[p].code = "OK"
    /\ Cardinality(GiftsUnder(store, call[p].listId)) = 2
    /\ getGiftById(store, out[p].value.id) = out[p].value


\* the share code under which a list record is indexed
ShareCodeOf(item) == item.GSI2PK[2]

\* the step of p is a createList that returns
CreateListEnds(p) == EndsAtOnce(p, "createList", "OK")

\* what a createList step of p adds and returns, whatever other lists carry
\* its share code: one record under a free key, every other record left as it
\* was, the list returned having a fresh id, the caller as owner, the fields of
\* the request, a shareUrl made of the share code of the record, createdAt =
\* updatedAt, and being what getListById(id) returns afterwards
CreateListAdds(p) ==
  LET list == out'[p].value
      k == ListKey(list.id)
  IN /\ k \notin DOMAIN store
     /\ DOMAIN store' = DOMAIN store \cup {k}
     /\ \A j \in DOMAIN store : store'[j] = store[j]
     /\ \A j \in ListRecords(store) : store[j].id # list.id
     /\ list.ownerId = call'[p].ownerId
     /\ list.title = call'[p].request.title
     /\ list.hideClaimedGifts = call'[p].request.hideClaimedGifts
     /\ list.shareUrl = ShareUrl(ShareCodeOf(store'[k]))
     /\ list.createdAt = list.updatedAt
     /\ getListById(store', list.id) = list

UnclaimNext ==
  \/ Tick
  \/ \E r \in CreateListRequests, c \in ShareCodes :
       Issued < UnclaimIds /\ createList(SetupProc, Lister, r, c)
  \/ \E l \in KnownLists, r \in CreateGiftRequests :
       Issued < UnclaimIds /\ createGift_read(SetupProc, l, Lister, r)
  \/ createGift_put(SetupProc)
  \/ Return(SetupProc)
  \/ \E p \in ClaimProcs :
    \/ \E g \in StoredGifts, r \in ViewClaimRequests :
         /\ Turn(p, 2)
         /\ \A q \in ClaimProcs : ~InFlight(q)
         /\ claimGift_read(p, g, r)
    \/ claimGift_update(p)
    \/ claimGift_return(p)
    \/ \E g \in StoredGifts, o \in Owners :
         /\ Turn(p, 2)
         /\ \A q \in ClaimProcs : ~InFlight(q)
         /\ unclaimGift_gift(p, g, o)
    \/ unclaimGift_list(p)
    \/ unclaimGift_write(p)
    \/ unclaimGift_return(p)

SpecUnclaim == Init /\ [][UnclaimNext]_vars

\* the attributes an unclaimGift write sets or removes
UnclaimFields == ClaimFields \cup {"status", "updatedAt"}

\* record k has the status available and no claim field
Available(st, k) == StatusOf(st, k) = "available" /\ DOMAIN st[k] \cap ClaimFields = {}

\* C23: an unclaimGift of the owner of the gift's list goes to its write
\* whatever the status of the gift; the write, on a claimed gift and on an
\* available one alike, leaves the record with status available and no
\* claimedBy, claimerMessage, claimedAt, every other attribute but updatedAt and
\* every other record as they were, so that on a gift already available it
\* changes nothing but updatedAt; and the call then returns that gift.
C23_UnclaimUnconditional ==
  [][\A p \in Procs :
       /\ (/\ pc[p] = "unclaimGift_list" /\ pc'[p] # pc[p]
           /\ OwnerOf(store, loc[p].listId) = {call[p].ownerId})
            => pc'[p] = "unclaimGift_write"
       /\ (pc[p] = "unclaimGift_write" /\ pc'[p] # pc[p]) => UnclaimWrites(p)
       /\ (UnclaimWrites(p) /\ Has(store, GiftKey(loc[p].listId, call[p].giftId))) =>
            LET k == GiftKey(loc[p].listId, call[p].giftId)
            IN /\ Available(store', k)
               /\ DOMAIN store' = DOMAIN store
               /\ \A j \in DOMAIN store \ {k} : store'[j] = store[j]
               /\ DOMAIN store'[k] = (DOMAIN store[k] \ ClaimFields) \cup {"status", "updatedAt"}
               /\ \A a \in DOMAIN store[k] \ UnclaimFields : store'[k][a] = store[k][a]
               /\ Available(store, k) =>
                    /\ DOMAIN store'[k] = DOMAIN store[k]
                    /\ \A a \in DOMAIN store[k] \ {"updatedAt"} : store'[k][a] = store[k][a]
       /\ (pc[p] = "unclaimGift_return" /\ pc'[p] = "done") =>
            /\ out'[p].code = "OK"
            /\ out'[p].value # Null
            /\ out'[p].value.status = "available"
            /\ DOMAIN out'[p].value \cap ClaimFields = {}]_vars

\* the owner has unclaimed a claimed gift and then, no claimGift having been
\* made in between, unclaimed it again: both calls succeeded and the gift is
\* available with no claim field
C23_UnclaimedTwice ==
  \E g \in StoredGifts, u, v \in ClaimProcs :
    /\ Unclaimed(g, v)
    /\ u < v
    /\ u \in Succeeded(UnclaimsOn(g))
    /\ Succeeded(ClaimsBefore(g, u)) # {}
    /\ \A c \in ClaimsOn(g) : c < u
    /\ getGiftById(store, g) # Null
    /\ getGiftById(store, g) = out[v].value
    /\ DOMAIN out[v].value \cap ClaimFields = {}


(***************************************************************************)
(* The handler's rendering of what a repository function threw.            *)
(***************************************************************************)
\* the errors thrown as ApiError, with the status code given to each
ApiErrorStatus ==
  [NOT_FOUND |-> 404, FORBIDDEN |-> 403, ALREADY_CLAIMED |-> 409]

\* errorResponse: an ApiError is rendered with its own code and status, any
\* other error as 500 INTERNAL_ERROR
errorResponse(error) ==
  IF error.code \in DOMAIN ApiErrorStatus
  THEN [statusCode |-> ApiErrorStatus[error.code], code |-> error.code]
  ELSE [statusCode |-> 500, code |-> "INTERNAL_ERROR"]

\* the errors of the store that are not the failure of a condition
StoreErrors == {"StoreError", "ValidationException"}

\* C24: a claimGift ends with ALREADY_CLAIMED only in the step of its update,
\* when the store has evaluated the condition of a well-formed request and
\* found it false; a claimGift that a store call failed in any other way ends
\* with that error, which is none of NOT_FOUND, FORBIDDEN, ALREADY_CLAIMED and
\* which the handler renders as 500 INTERNAL_ERROR; the handler answers 409
\* only for ALREADY_CLAIMED.
C24_OnlyConditionIsConflict ==
  [][\A p \in Procs :
       (pc[p] # "done" /\ pc'[p] = "done" /\ call'[p].op = "claimGift"
        /\ out'[p].code # "OK") =>
         /\ out'[p].code = "ALREADY_CLAIMED" =>
              /\ pc[p] = "claimGift_update"
              /\ ClaimExpressionValues \subseteq
                   DOMAIN ClaimValues(call[p].request, loc[p].now)
              /\ ~ClaimCondition(store, ClaimKey(p))
         /\ out'[p].code \in {"NOT_FOUND", "ALREADY_CLAIMED"} \cup StoreErrors
         /\ out'[p].code \in StoreErrors =>
              errorResponse(out'[p]) = [statusCode |-> 500, code |-> "INTERNAL_ERROR"]
         /\ errorResponse(out'[p]).statusCode = 409 <=> out'[p].code = "ALREADY_CLAIMED"
         /\ store' = store]_vars

\* a claimGift on a gift that is claimed has ended with an error of the store
\* that the handler renders as 500
C24_StoreFailureOnClaimed ==
  \E p \in Procs :
    /\ pc[p] = "done" /\ call[p].op = "claimGift"
    /\ out[p].code \in StoreErrors
    /\ errorResponse(out[p]).statusCode = 500
    /\ getGiftById(store, call[p].giftId) # Null
    /\ getGiftById(store, call[p].giftId).status = "claimed"


\* the step is one of p's claimGift call
ClaimStep(p) ==
  /\ pc'[p] # pc[p]
  /\ \/ pc[p] = "idle" /\ call'[p].op = "claimGift"
     \/ pc[p] \in {"claimGift_update", "claimGift_return"}

\* C25: a claimGift whose lookup finds no gift for the id ends with NOT_FOUND
\* in that step; and no step of a claimGift, in any interleaving with
\* deleteGift and deleteList, adds a record to the store (or removes one): a
\* claimGift whose gift was deleted after its lookup does not end OK and leaves
\* the store as it is.
C25_ClaimCreatesNothing ==
  [][\A p \in Procs :
       ClaimStep(p) =>
         /\ DOMAIN store' = DOMAIN store
         /\ (pc[p] = "idle" /\ getGiftById(store, call'[p].giftId) = Null) =>
              /\ pc'[p] = "done" /\ out'[p].code = "NOT_FOUND"
              /\ store' = store /\ writes'[p] = writes[p]
         /\ (pc[p] = "claimGift_update" /\ ClaimKey(p) \notin DOMAIN store) =>
              /\ pc'[p] = "done" /\ out'[p].code \notin {"OK"}
              /\ store' = store /\ writes'[p] = writes[p]]_vars

\* a claimGift with a well-formed request is about to send its update, and the
\* gift it looked up has been deleted since
C25_DeletedAfterLookup ==
  \E p \in Procs :
    /\ pc[p] = "claimGift_update"
    /\ ClaimKey(p) \notin DOMAIN store
    /\ Has(call[p].request, "claimerMessage")
    /\ \E q \in Procs \ {p} :
         /\ pc[q] = "done" /\ out[q].code = "OK"
         /\ call[q].op \in {"deleteGift", "deleteList"}


(***************************************************************************)
(* SpecTime: the calls that write a stored record, one at a time, while    *)
(* time passes between their store calls.                                  *)
(***************************************************************************)
TimeNext ==
  \/ Tick
  \/ \E r \in CreateListRequests, c \in ShareCodes :
       Issued < TimeIds /\ createList(SeqProc, Lister, r, c)
  \/ \E l \in KnownLists, r \in CreateGiftRequests :
       Issued < TimeIds /\ createGift_read(SeqProc, l, Lister, r)
  \/ createGift_put(SeqProc)
  \/ \E l \in KnownLists, r \in UpdateListRequests :
       updateList_read(SeqProc, l, Lister, r)
  \/ updateList_write(SeqProc)
  \/ updateList_return(SeqProc)
  \/ \E g \in KnownGifts, r \in UpdateGiftRequests :
       updateGift_gift(SeqProc, g, Lister, r)
  \/ updateGift_list(SeqProc)
  \/ updateGift_write(SeqProc)
  \/ updateGift_return(SeqProc)
  \/ \E g \in KnownGifts, r \in ViewClaimRequests : claimGift_read(SeqProc, g, r)
  \/ claimGift_update(SeqProc)
  \/ claimGift_return(SeqProc)
  \/ \E g \in KnownGifts : unclaimGift_gift(SeqProc, g, Lister)
  \/ unclaimGift_list(SeqProc)
  \/ unclaimGift_write(SeqProc)
  \/ unclaimGift_return(SeqProc)
  \/ Return(SeqProc)

SpecTime == Init /\ [][TimeNext]_vars


\* the steps of the writes of updateList and updateGift
UpdateListWrites(p) == pc[p] = "updateList_write" /\ pc'[p] = "updateList_return"
UpdateGiftWrites(p) == pc[p] = "updateGift_write" /\ pc'[p] = "updateGift_return"

\* the record a gift call of p writes
WrittenGift(p) == GiftKey(loc[p].listId, call[p].giftId)

\* C26: the write of an updateList, updateGift, claimGift or unclaimGift
\* leaves the record with updatedAt equal to the timestamp the call took; the
\* write of a claimGift stores claimedAt equal to that updatedAt; the entity a
\* successful call returns carries that updatedAt; and no step changes the
\* createdAt of a stored record.
C26_UpdatedAtRefreshed ==
  [][/\ \A p \in Procs :
          /\ UpdateListWrites(p) =>
               store'[ListKey(call[p].listId)].updatedAt = loc[p].now
          /\ (UpdateGiftWrites(p) \/ UnclaimWrites(p) \/ ClaimWrites(p)) =>
               store'[WrittenGift(p)].updatedAt = loc[p].now
          /\ ClaimWrites(p) =>
               store'[WrittenGift(p)].claimedAt = store'[WrittenGift(p)].updatedAt
          /\ (/\ pc[p] \in {"updateList_return", "updateGift_return",
                            "claimGift_return", "unclaimGift_return"}
              /\ pc'[p] = "done" /\ out'[p].code = "OK") =>
               out'[p].value.updatedAt = loc[p].now
     /\ \A k \in DOMAIN store \cap DOMAIN store' :
          Has(store[k], "createdAt") =>
            Has(store'[k], "createdAt") /\ store'[k].createdAt = store[k].createdAt]_vars

\* an updateGift has returned a gift updated later than it was created
C26_UpdatedLater ==
  \E p \in Procs :
    /\ pc[p] = "done" /\ call[p].op = "updateGift" /\ out[p].code = "OK"
    /\ out[p].value.updatedAt > out[p].value.createdAt
    /\ getGiftById(store, call[p].giftId) = out[p].value

\* a claimGift has returned a gift claimed later than it was created, with
\* claimedAt = updatedAt
C26_ClaimedLater ==
  \E p \in Procs :
    /\ pc[p] = "done" /\ call[p].op = "claimGift" /\ out[p].code = "OK"
    /\ out[p].value.claimedAt = out[p].value.updatedAt
    /\ out[p].value.updatedAt > out[p].value.createdAt


\* C27: a claimGift that has returned successfully has returned a gift, with
\* status claimed, claimedBy the claimedBy of its request and claimerMessage
\* the claimerMessage of its request, in every interleaving with other calls.
C27_ReturnsClaimedGift ==
  \A p \in Procs :
    (pc[p] = "done" /\ call[p].op = "claimGift" /\ out[p].code = "OK") =>
      /\ out[p].value # Null
      /\ StatusOf(<<out[p].value>>, 1) = "claimed"
      /\ Has(out[p].value, "claimedBy")
      /\ out[p].value.claimedBy = call[p].request.claimedBy
      /\ Has(out[p].value, "claimerMessage")
      /\ out[p].value.claimerMessage = call[p].request.claimerMessage

\* a claimGift has returned no gift: the gift it claimed was deleted before
\* its re-read
C27_ReturnedNull ==
  \E p \in Procs :
    /\ pc[p] = "done" /\ call[p].op = "claimGift" /\ out[p].code = "OK"
    /\ out[p].value = Null
    /\ writes[p] = 1

\* a claimGift has returned a gift that is available: the owner unclaimed it
\* before the re-read
C27_ReturnedAvailable ==
  \E p \in Procs :
    /\ pc[p] = "done" /\ call[p].op = "claimGift" /\ out[p].code = "OK"
    /\ out[p].value # Null
    /\ StatusOf(<<out[p].value>>, 1) = "available"
    /\ writes[p] = 1


\* C28: the update of a claimGift whose request carries a claimedBy and no
\* claimerMessage, on a stored gift whose status is available, is applied
\* (unless the store fails the call): the gift is left claimed, with the
\* claimedBy of the request, a claimedAt and no claimerMessage.
C28_MessageOptional ==
  [][\A p \in Procs :
       (/\ pc[p] = "claimGift_update" /\ pc'[p] # pc[p]
        /\ Has(call[p].request, "claimedBy")
        /\ ~Has(call[p].request, "claimerMessage")
        /\ ClaimCondition(store, ClaimKey(p))
        /\ ~(pc'[p] = "done" /\ out'[p].code = "StoreError")) =>
         /\ ClaimWrites(p)
         /\ StatusOf(store', ClaimKey(p)) = "claimed"
         /\ store'[ClaimKey(p)].claimedBy = call[p].request.claimedBy
         /\ Has(store'[ClaimKey(p)], "claimedAt")
         /\ ~Has(store'[ClaimKey(p)], "claimerMessage")]_vars

\* a claimGift without claimerMessage on an available gift has been rejected
\* by the store with ValidationException, and the gift is still available
C28_MessagelessRejected ==
  \E p \in Procs :
    /\ pc[p] = "done" /\ call[p].op = "claimGift"
    /\ ~Has(call[p].request, "claimerMessage")
    /\ out[p].code = "ValidationException"
    /\ getGiftById(store, call[p].giftId) # Null
    /\ getGiftById(store, call[p].giftId).status = "available"


\* the least number of batches of size b that hold a keys
CeilDiv(a, b) == (a + b - 1) \div b

\* the keys a step deletes from the store
Deleted == DOMAIN store \ DOMAIN store'

\* C29 (the batch limit 25 scaled to BatchSize): with one call at a time, the
\* requests deleteList builds are the key of the list record and the key of
\* each gift its query returned, each once, all in the partition of the list;
\* every batch deletes the next BatchSize of them at most, and nothing else,
\* so that each key is in exactly one batch and no key of another list in
\* any; and for n gifts the call returns after ceil((n + 1) / BatchSize)
\* batches.
C29_DeleteInChunks ==
  [][\A p \in Procs :
       /\ (pc[p] = "deleteList_query" /\ pc'[p] = "deleteList_batch") =>
            LET reqs == loc'[p].deleteRequests
                keys == {ListKey(call[p].listId)} \cup GiftsUnder(store, call[p].listId)
            IN /\ {reqs[n] : n \in DOMAIN reqs} = keys
               /\ Len(reqs) = Cardinality(keys)
               /\ \A n \in DOMAIN reqs : reqs[n][1] = ListPK(call[p].listId)
               /\ loc'[p].i = 0 /\ writes'[p] = 0
       /\ (pc[p] = "deleteList_batch" /\ pc'[p] # "deleteList_batch"
           /\ ~(pc'[p] = "done" /\ out'[p].code = "OK")) =>
            /\ out'[p].code = "StoreError" /\ Deleted = {}
       /\ (pc[p] = "deleteList_batch" /\ writes'[p] # writes[p]) =>
            LET reqs == loc[p].deleteRequests
                i == loc[p].i
                slice == {n \in DOMAIN reqs : i < n /\ n <= i + BatchSize}
            IN /\ Deleted = {reqs[n] : n \in slice}
               /\ Cardinality(Deleted) = Cardinality(slice)
               /\ Cardinality(Deleted) \in 1..BatchSize
               /\ \A k \in Deleted : k[1] = ListPK(call[p].listId)
               /\ \A k \in DOMAIN store' : store'[k] = store[k]
               /\ writes'[p] = writes[p] + 1
               /\ writes[p] * BatchSize = i
               /\ IF i + BatchSize < Len(reqs)
                  THEN /\ pc'[p] = "deleteList_batch"
                       /\ loc'[p] = [loc[p] EXCEPT !.i = i + BatchSize]
                  ELSE /\ pc'[p] = "done" /\ out'[p].code = "OK"
                       /\ writes'[p] = CeilDiv(Len(reqs), BatchSize)]_vars

\* a deleteList has returned after two batches, the partition of its list is
\* empty and the record of another list is stored
C29_TwoBatchesOtherListKept ==
  \E p \in Procs :
    /\ pc[p] = "done" /\ call[p].op = "deleteList" /\ out[p].code = "OK"
    /\ writes[p] = 2
    /\ Partition(store, call[p].listId) = {}
    /\ ListRecords(store) # {}


\* what createList and createGift give every record they put, besides its key
ListRecordFields == {"id", "ownerId", "GSI1PK", "GSI1SK", "GSI2PK", "GSI2SK",
                     "shareUrl", "createdAt"}
GiftRecordFields == {"id", "listId", "GSI1PK", "GSI1SK", "status", "createdAt"}

\* C30: in every interleaving, every list record and every gift record of the
\* store carries its id, its owner or list reference and its index keys: no
\* record is left under a key by an update whose target was deleted after the
\* call read it.
C30_RecordsComplete ==
  /\ \A k \in ListRecords(store) : ListRecordFields \subseteq DOMAIN store[k]
  /\ \A k \in GiftKeys(store) : GiftRecordFields \subseteq DOMAIN store[k]

\* an updateGift or unclaimGift has returned without error, a deleteGift or
\* deleteList on the other invocation has too, and a gift record without id,
\* listId and index keys is stored, which getGiftById does not find
C30_GhostGift ==
  \E p, q \in Procs :
    /\ pc[p] = "done" /\ call[p].op \in {"updateGift", "unclaimGift"} /\ out[p].code = "OK"
    /\ pc[q] = "done" /\ call[q].op \in {"deleteGift", "deleteList"} /\ out[q].code = "OK"
    /\ out[p].value = Null
    /\ \E k \in GiftKeys(store) :
         /\ k[2] = GiftSK(call[p].giftId)
         /\ DOMAIN store[k] \cap {"id", "listId", "GSI1PK"} = {}

====
